---- MODULE Spec2Model ----
(***************************************************************************)
(* levanter/models/mistral.py: the Mistral configuration record, its       *)
(* translation to and from the HuggingFace configuration, the LM-head      *)
(* model assembled from an embedding table, a transformer stack and an     *)
(* output projection, vocabulary resizing and the state-dict (checkpoint)  *)
(* import and export of the output projection.                             *)
(***************************************************************************)
EXTENDS Integers, Sequences, FiniteSets, TLC

VARIABLES
    hf,        \* the external (HuggingFace) config cfg was translated from, if any
    cfg,       \* the MistralConfig record the caller holds
    origin,    \* how cfg was built: "ctor", "from_hf", "replace"
    lastOp,    \* the last operation and its arguments
    hfOut,     \* outcome of the last to_hf_config call
    exc,       \* exception raised by the last operation ("none" if it returned)
    heap,      \* model instances by object identity (1..Len(heap))
    born,      \* per instance: the instance as it was when it was created
    req,       \* per instance: the size passed to init / the most recent resize_vocab
    ret,       \* outcome of the last model or checkpoint operation
    dicts,     \* state-dict objects by identity; the caller's mapping is dicts[1]
    prov       \* per state dict: who wrote it (the caller, one export, several)

cvars == <<hf, cfg, origin, lastOp, hfOut, exc>>
mvars == <<heap, born, req, ret>>
dvars == <<dicts, prov>>
vars == <<hf, cfg, origin, lastOp, hfOut, exc, heap, born, req, ret, dicts, prov>>

(***************************************************************************)
(* Bounds of the model.                                                    *)
(***************************************************************************)
MaxHeads == 3
MaxVocab == 3
MaxObjs == 3
MaxBatch == 2

None == [kind |-> "None"]
Raised(e) == [kind |-> "raise", exc |-> e]
Value(v) == [kind |-> "value", val |-> v]

(***************************************************************************)
(* Named axes (haliax.Axis).                                               *)
(***************************************************************************)
Axis(name, size) == [name |-> name, size |-> size]
alias(ax, new_name) == Axis(new_name, ax.size)
resize(ax, new_size) == Axis(ax.name, new_size)

(***************************************************************************)
(* MistralConfig: a frozen dataclass; its fields with their defaults.      *)
(***************************************************************************)
DefaultConfig ==
    [seq_len |-> 8192,
     hidden_dim |-> 4096,
     intermediate_dim |-> 14336,
     num_layers |-> 32,
     num_heads |-> 32,
     num_kv_heads |-> 8,
     activation_function |-> "silu",
     initializer_range |-> "0.02",
     layer_norm_epsilon |-> "1e-6",
     sliding_window |-> 4096,
     upcast_attn |-> FALSE,
     use_flash_attention |-> FALSE,
     flash_attention_block_size |-> "None",
     gradient_checkpointing |-> TRUE,
     gradient_checkpointing_block_size |-> 5,
     use_bias |-> FALSE,
     rope_scaling |-> "None"]

\* MistralConfig(**kwargs): the generated constructor stores every keyword it is
\* given and takes the declared default for the rest; mistral.py adds no check.
MistralConfig(kwargs) ==
    [f \in DOMAIN DefaultConfig |->
        IF f \in DOMAIN kwargs THEN kwargs[f] ELSE DefaultConfig[f]]

\* dataclasses.replace(c, **changes): a new record built by the constructor.
replace(c, changes) ==
    MistralConfig([f \in DOMAIN c |-> IF f \in DOMAIN changes THEN changes[f] ELSE c[f]])

\* frozen=True, but with __setattr__ left writable.
setattr_unfrozen(c, f, v) == Value([c EXCEPT ![f] = v])

\* c.f = v on a frozen dataclass: FrozenInstanceError, the record is untouched.
setattr(c, f, v) == Raised("FrozenInstanceError")

\* The derived axes, computed on every access.
Pos(c) == Axis("position", c.seq_len)
KeyPos(c) == alias(Pos(c), "key_position")
Embed(c) == Axis("embed", c.hidden_dim)
Heads(c) == Axis("heads", c.num_heads)
KVHeads(c) == Axis("kv_heads", c.num_kv_heads)
Layers(c) == Axis("layers", c.num_layers)
Mlp(c) == Axis("mlp", c.intermediate_dim)
HeadSize(c) == Axis("head_size", c.hidden_dim \div c.num_heads)

(***************************************************************************)
(* Translation to and from the external configuration.                     *)
(***************************************************************************)
SharedFields ==
    {"max_position_embeddings", "hidden_size", "intermediate_size",
     "num_hidden_layers", "num_attention_heads", "num_key_value_heads",
     "hidden_act", "initializer_range", "rms_norm_eps", "sliding_window",
     "vocab_size"}

from_hf_config_swapped(hf_config) ==
    MistralConfig(
        [seq_len |-> hf_config.max_position_embeddings,
         hidden_dim |-> hf_config.hidden_size,
         intermediate_dim |-> hf_config.intermediate_size,
         num_layers |-> hf_config.num_hidden_layers,
         num_heads |-> hf_config.num_key_value_heads,
         num_kv_heads |-> hf_config.num_attention_heads,
         activation_function |-> hf_config.hidden_act,
         initializer_range |-> hf_config.initializer_range,
         layer_norm_epsilon |-> hf_config.rms_norm_eps,
         sliding_window |-> hf_config.sliding_window])

from_hf_config(hf_config) ==
    MistralConfig(
        [seq_len |-> hf_config.max_position_embeddings,
         hidden_dim |-> hf_config.hidden_size,
         intermediate_dim |-> hf_config.intermediate_size,
         num_layers |-> hf_config.num_hidden_layers,
         num_heads |-> hf_config.num_attention_heads,
         num_kv_heads |-> hf_config.num_key_value_heads,
         activation_function |-> hf_config.hidden_act,
         initializer_range |-> hf_config.initializer_range,
         layer_norm_epsilon |-> hf_config.rms_norm_eps,
         sliding_window |-> hf_config.sliding_window])

\* A Python call f(k1=v1, ..., **extra): a keyword given twice is a TypeError
\* raised before f runs; otherwise f receives the union of the keywords.
KwCall(explicit, extra) ==
    IF DOMAIN explicit \cap DOMAIN extra # {}
    THEN Raised("TypeError")
    ELSE Value([k \in DOMAIN explicit \cup DOMAIN extra |->
                    IF k \in DOMAIN explicit THEN explicit[k] ELSE extra[k]])

NoOverrides == [k \in {} |-> 0]

to_hf_config(self, vocab_size, config_overrides) ==
    LET overrides == IF config_overrides = None THEN NoOverrides
                     ELSE config_overrides.val
    IN  KwCall(
            [max_position_embeddings |-> self.seq_len,
             hidden_size |-> self.hidden_dim,
             intermediate_size |-> self.intermediate_dim,
             num_hidden_layers |-> self.num_layers,
             num_attention_heads |-> self.num_heads,
             num_key_value_heads |-> self.num_kv_heads,
             hidden_act |-> self.activation_function,
             initializer_range |-> self.initializer_range,
             rms_norm_eps |-> self.layer_norm_epsilon,
             sliding_window |-> self.sliding_window,
             vocab_size |-> vocab_size],
            overrides)

(***************************************************************************)
(* Named arrays (haliax.NamedArray): the axes and the elements in          *)
(* row-major order.  Element values are integers in arbitrary units.       *)
(***************************************************************************)
RECURSIVE NumElems(_)
NumElems(axes) ==
    IF axes = << >> THEN 1 ELSE Head(axes).size * NumElems(Tail(axes))

NamedArray(axes, data) == [axes |-> axes, data |-> data]

RECURSIVE SumSeq(_)
SumSeq(q) == IF q = << >> THEN 0 ELSE Head(q) + SumSeq(Tail(q))

\* jax.random: the draws are a fixed function of the key and the position.
Sample(key, n) == [i \in 1..n |-> (key * 5 + i * 3) % 11]

\* jrandom.split(key, 2)
split(key) == <<2 * key + 1, 2 * key + 2>>

\* maybe_rng_split(key, 2): None splits into Nones.
maybe_rng_split(key) ==
    IF key = None THEN <<None, None>>
    ELSE <<Value(split(key.val)[1]), Value(split(key.val)[2])>>

\* x.resolve_axis(selector): the position of the axis of that name, 0 if absent.
AxisIndex(x, ax) ==
    IF \E i \in 1..Len(x.axes) : x.axes[i].name = ax.name
    THEN CHOOSE i \in 1..Len(x.axes) : x.axes[i].name = ax.name
    ELSE 0

\* The element of a rank-2 array at (i, j), 1-based.
At(x, i, j) == x.data[(i - 1) * x.axes[2].size + j]

\* hax.tree_util.resize_axis on one rank-2 array: unchanged if the axis is
\* absent or already of that size, truncated if it shrinks, and padded if it
\* grows (with the mean of the elements when key is None, with draws otherwise).
resize_axis(x, old_axis, new_size, key) ==
    LET p == AxisIndex(x, old_axis)
    IN  IF p = 0 THEN x
        ELSE IF x.axes[p].size = new_size THEN x
        ELSE
            LET old == x.axes[p].size
                axes2 == [x.axes EXCEPT ![p] = resize(x.axes[p], new_size)]
                rows == axes2[1].size
                cols == axes2[2].size
                mean == IF Len(x.data) = 0 THEN 0 ELSE SumSeq(x.data) \div Len(x.data)
                pad(n) == IF key = None THEN mean ELSE (mean + Sample(key.val, n)[n]) % 11
                elem(n) ==
                    LET i == ((n - 1) \div cols) + 1
                        j == ((n - 1) % cols) + 1
                        along == IF p = 1 THEN i ELSE j
                    IN  IF along <= old THEN At(x, i, j) ELSE pad(n)
            IN  NamedArray(axes2, [n \in 1..(rows * cols) |-> elem(n)])

(***************************************************************************)
(* The building blocks the model composes.                                 *)
(***************************************************************************)
\* hnn.Linear.init(In, Out, key, use_bias, out_first): the weight's axes are
\* (Out, In) when out_first and (In, Out) otherwise; no bias unless asked.
Linear_init(In, Out, key, use_bias, out_first) ==
    LET axes == IF out_first THEN <<Out, In>> ELSE <<In, Out>>
    IN  [In |-> In,
         Out |-> Out,
         weight |-> NamedArray(axes, [i \in 1..NumElems(axes) |-> 3 * Sample(key, NumElems(axes))[i]]),
         bias |-> IF use_bias
                  THEN NamedArray(<<Out>>, [i \in 1..Out.size |-> 0])
                  ELSE None,
         out_first |-> out_first]

\* LlamaEmbedding.init(Vocab, config, key): a (Vocab, Embed) table.
LlamaEmbedding_init(Vocab, config, key) ==
    [Vocab |-> Vocab,
     token_embeddings |->
        NamedArray(<<Vocab, Embed(config)>>, Sample(key, Vocab.size * config.hidden_dim))]

\* LlamaEmbedding.resize_embeddings(new_size, key)
resize_embeddings(emb, new_size, key) ==
    [Vocab |-> resize(emb.Vocab, new_size),
     token_embeddings |-> resize_axis(emb.token_embeddings, emb.Vocab, new_size, key)]

\* LlamaTransformer.init(config, key): the stack keeps its config; of its
\* parameters the final norm weight stands for the rest.
LlamaTransformer_init(config, key) ==
    [config |-> config,
     norm |-> NamedArray(<<Embed(config)>>, [i \in 1..config.hidden_dim |-> 1])]

(***************************************************************************)
(* MistralLMHeadModel.                                                     *)
(***************************************************************************)
config(self) == self.transformer.config
Vocab(self) == self.embeddings.Vocab
vocab_size(self) == Vocab(self).size

MistralLMHeadModel_init_in_first(V, c, key) ==
    LET k_t == split(key)[1]
        k_emb == split(key)[2]
    IN  [transformer |-> LlamaTransformer_init(c, k_t),
         embeddings |-> LlamaEmbedding_init(V, c, k_emb),
         lm_head |-> Linear_init(Embed(c), V, k_emb, FALSE, FALSE)]

MistralLMHeadModel_init(V, c, key) ==
    LET k_t == split(key)[1]
        k_emb == split(key)[2]
    IN  [transformer |-> LlamaTransformer_init(c, k_t),
         embeddings |-> LlamaEmbedding_init(V, c, k_emb),
         lm_head |-> Linear_init(Embed(c), V, k_emb, FALSE, TRUE)]

\* self(input_ids, attn_mask, key): the axes of the logits.  The embedding
\* lookup adds Embed to the axes of input_ids, the transformer keeps the axes,
\* and lm_head puts its Out axis in place of its In axis.  Nothing is assigned.
call(h, self, input_ids) ==
    LET m == h[self]
        x == Append(input_ids.axes, m.embeddings.token_embeddings.axes[2])
        logits == [i \in 1..Len(x) |->
                      IF x[i].name = m.lm_head.In.name THEN m.lm_head.Out ELSE x[i]]
    IN  [heap |-> h, ret |-> [axes |-> logits]]

\* The instance resize_vocab builds from self.
Resized(m, new_size, key) ==
    LET new_Vocab == resize(Vocab(m), new_size)
        k1 == maybe_rng_split(key)[1]
        k2 == maybe_rng_split(key)[2]
        new_embeddings == resize_embeddings(m.embeddings, new_size, k1)
        new_lm_matrix == resize_axis(m.lm_head.weight, Vocab(m), new_size, k2)
        new_lm_head == [m.lm_head EXCEPT !.Out = new_Vocab, !.weight = new_lm_matrix]
    IN  [m EXCEPT !.embeddings = new_embeddings, !.lm_head = new_lm_head]

\* self.lm_head = ...; self.embeddings = ...; return self
resize_vocab_in_place(h, self, new_size, key) ==
    [heap |-> [h EXCEPT ![self] = Resized(h[self], new_size, key)], ret |-> self]

\* the weight is resized but Out keeps the old axis
resize_vocab_stale_Out(h, self, new_size, key) ==
    LET r == Resized(h[self], new_size, key)
    IN  [heap |-> Append(h, [r EXCEPT !.lm_head.Out = h[self].lm_head.Out]),
         ret |-> Len(h) + 1]

\* only lm_head is replaced
resize_vocab_stale_embeddings(h, self, new_size, key) ==
    LET r == Resized(h[self], new_size, key)
    IN  [heap |-> Append(h, [r EXCEPT !.embeddings = h[self].embeddings]),
         ret |-> Len(h) + 1]

\* self.resize_vocab(new_size, key): dataclasses.replace builds a new instance;
\* self is not assigned to.
resize_vocab(h, self, new_size, key) ==
    [heap |-> Append(h, Resized(h[self], new_size, key)), ret |-> Len(h) + 1]

(***************************************************************************)
(* State dicts: mappings from dotted keys (sequences of name parts) to     *)
(* plain arrays (a shape and the elements in row-major order).             *)
(***************************************************************************)
EmptyDict == [k \in {} |-> 0]

\* d.update(e)
Update(d, e) ==
    [k \in DOMAIN d \cup DOMAIN e |-> IF k \in DOMAIN e THEN e[k] ELSE d[k]]

\* x.array
Raw(x) == [shape |-> [i \in 1..Len(x.axes) |-> x.axes[i].size], data |-> x.data]

\* hax.named(array, axes): the shape must be that of the axes.
Named(a, axes) ==
    IF a.shape = [i \in 1..Len(axes) |-> axes[i].size]
    THEN Value(NamedArray(axes, a.data))
    ELSE Raised("ValueError")

\* A rank-2 array with its two dimensions exchanged.
Transpose2(a) ==
    LET r == a.shape[1]
        c == a.shape[2]
    IN  [shape |-> <<c, r>>,
         data |-> [n \in 1..(r * c) |->
                      LET j == ((n - 1) \div r) + 1
                          i == ((n - 1) % r) + 1
                      IN  a.data[(i - 1) * c + j]]]

\* apply_prefix(prefix, leaf): the dotted join, either part may be None.
apply_prefix(prefix, leaf) ==
    IF prefix = None THEN leaf
    ELSE IF leaf = None THEN prefix
    ELSE Value(prefix.val \o leaf.val)

\* flatten_linear_layers(prefix, layer, out_dims_first_in_dict): the weight as a
\* 2-d matrix, (out, in) if out_dims_first_in_dict and (in, out) otherwise,
\* under prefix.weight; the bias, if the layer has one, under prefix.bias.
flatten_linear_layers(prefix, layer, out_dims_first_in_dict) ==
    LET w == Raw(layer.weight)
        layer_out_first == layer.weight.axes[1].name = layer.Out.name
        w2 == IF layer_out_first = out_dims_first_in_dict THEN w ELSE Transpose2(w)
        wk == apply_prefix(prefix, Value(<<"weight">>)).val
        bk == apply_prefix(prefix, Value(<<"bias">>)).val
    IN  [k \in {wk} \cup (IF layer.bias = None THEN {} ELSE {bk}) |->
            IF k = wk THEN w2 ELSE Raw(layer.bias)]

\* unflatten_linear_layers(prefix, statedict, layer, out_dims_first_in_dict):
\* reads prefix.weight, takes its dimensions as (out, in) or (in, out),
\* rearranges it to the layer's own order and checks the sizes against the
\* layer's axes.  A missing key is a KeyError, a wrong size a ValueError.
unflatten_linear_layers(prefix, statedict, layer, out_dims_first_in_dict) ==
    LET wk == apply_prefix(prefix, Value(<<"weight">>)).val
        bk == apply_prefix(prefix, Value(<<"bias">>)).val
    IN  IF wk \notin DOMAIN statedict THEN Raised("KeyError")
        ELSE
            LET w == statedict[wk]
            IN  IF Len(w.shape) # 2 THEN Raised("ValueError")
                ELSE
                    LET out == IF out_dims_first_in_dict THEN w.shape[1] ELSE w.shape[2]
                        in == IF out_dims_first_in_dict THEN w.shape[2] ELSE w.shape[1]
                        w2 == IF layer.out_first = out_dims_first_in_dict
                              THEN w ELSE Transpose2(w)
                    IN  IF out # layer.Out.size \/ in # layer.In.size
                        THEN Raised("ValueError")
                        ELSE Value([k \in {wk} \cup ({bk} \cap DOMAIN statedict) |->
                                        IF k = wk THEN w2 ELSE statedict[bk]])

\* MistralLMHeadModel._state_dict_key_map; a field without an entry keeps its name.
state_dict_key_map ==
    [transformer |-> Value(<<"model">>),
     embeddings |-> None,
     lm_head |-> Value(<<"lm_head">>)]

\* The keys of the three parts under a prefix.
NormKey(prefix) ==
    apply_prefix(apply_prefix(prefix, state_dict_key_map.transformer),
                 Value(<<"norm", "weight">>)).val
EmbedKey(prefix) ==
    apply_prefix(apply_prefix(prefix, state_dict_key_map.embeddings),
                 Value(<<"model", "embed_tokens", "weight">>)).val
HeadKey(prefix) ==
    apply_prefix(apply_prefix(prefix, state_dict_key_map.lm_head),
                 Value(<<"weight">>)).val

\* StateDictSerializationMixin.update_state_dict: every field's arrays, as they
\* are, under the field's mapped key.
inherited_update_state_dict(m, state_dict, prefix) ==
    Update(state_dict,
           [k \in {NormKey(prefix), EmbedKey(prefix), HeadKey(prefix)} |->
               IF k = NormKey(prefix) THEN Raw(m.transformer.norm)
               ELSE IF k = EmbedKey(prefix) THEN Raw(m.embeddings.token_embeddings)
               ELSE Raw(m.lm_head.weight)])

\* StateDictSerializationMixin.from_state_dict: a new instance whose arrays are
\* read from the mapping under the same keys and given the template's axes.
inherited_from_state_dict(m, d, prefix) ==
    IF ~ ({NormKey(prefix), EmbedKey(prefix), HeadKey(prefix)} \subseteq DOMAIN d)
    THEN Raised("KeyError")
    ELSE
        LET norm == Named(d[NormKey(prefix)], m.transformer.norm.axes)
            emb == Named(d[EmbedKey(prefix)], m.embeddings.token_embeddings.axes)
            w == Named(d[HeadKey(prefix)], m.lm_head.weight.axes)
        IN  IF norm.kind = "raise" \/ emb.kind = "raise" \/ w.kind = "raise"
            THEN Raised("ValueError")
            ELSE Value([m EXCEPT !.transformer.norm = norm.val,
                                 !.embeddings.token_embeddings = emb.val,
                                 !.lm_head.weight = w.val])

\* the layer is unflattened under "lm_head", the prefix is dropped
from_state_dict_no_prefix(ds, m, sd, prefix) ==
    LET state_dict == ds[sd]
        u == unflatten_linear_layers(Value(<<"lm_head">>), state_dict, m.lm_head, TRUE)
    IN  IF u.kind = "raise" THEN [dicts |-> ds, ret |-> u]
        ELSE [dicts |-> ds,
              ret |-> inherited_from_state_dict(m, Update(state_dict, u.val), prefix)]

\* self.from_state_dict(state_dict, prefix); state_dict is the object ds[sd].
from_state_dict(ds, m, sd, prefix) ==
    LET state_dict == ds[sd]
        d == state_dict    \* state_dict.copy(): another mapping, the same entries
        u == unflatten_linear_layers(apply_prefix(prefix, Value(<<"lm_head">>)),
                                     state_dict, m.lm_head, TRUE)
    IN  IF u.kind = "raise" THEN [dicts |-> ds, ret |-> u]
        ELSE [dicts |-> ds,
              ret |-> inherited_from_state_dict(m, Update(d, u.val), prefix)]

\* return my_dict, state_dict is left as it was
update_state_dict_returns_my_dict(ds, m, sd, prefix) ==
    LET my_dict ==
            Update(inherited_update_state_dict(m, EmptyDict, prefix),
                   flatten_linear_layers(apply_prefix(prefix, Value(<<"lm_head">>)),
                                         m.lm_head, TRUE))
    IN  [dicts |-> Append(ds, my_dict), ret |-> Len(ds) + 1]

\* self.update_state_dict(state_dict, prefix); state_dict is the object ds[sd].
\* my_dict is a new mapping that nothing refers to after the return.
update_state_dict(ds, m, sd, prefix) ==
    LET my_dict ==
            Update(inherited_update_state_dict(m, EmptyDict, prefix),
                   flatten_linear_layers(apply_prefix(prefix, Value(<<"lm_head">>)),
                                         m.lm_head, TRUE))
    IN  [dicts |-> [ds EXCEPT ![sd] = Update(ds[sd], my_dict)], ret |-> sd]

(***************************************************************************)
(* Inputs of the configuration operations.                                 *)
(***************************************************************************)
SeqLens == {8, 1048576}
HiddenDims == {4, 6}
HfVocabSizes == {5, 7}
Activations == {"silu", "gelu"}

HfConfigs ==
    [max_position_embeddings : SeqLens,
     hidden_size : {6},
     intermediate_size : {16},
     num_hidden_layers : {2},
     num_attention_heads : 1..MaxHeads,
     num_key_value_heads : 1..MaxHeads,
     hidden_act : Activations,
     initializer_range : {"0.02"},
     rms_norm_eps : {"1e-05"},
     sliding_window : {4096},
     vocab_size : HfVocabSizes]

\* config_overrides: omitted (None), empty, keys the call does not set itself,
\* and keys it does.
OverrideChoices ==
    {None,
     Value(NoOverrides),
     Value([architectures |-> "MistralForCausalLM"]),
     Value([hidden_size |-> 12]),
     Value([max_position_embeddings |-> 32]),
     Value([architectures |-> "MistralForCausalLM", hidden_size |-> 12])}

FieldChanges ==
    {[seq_len |-> 16], [hidden_dim |-> 12], [num_heads |-> 3], [num_kv_heads |-> 2]}

(***************************************************************************)
(* Operations on the configuration record.                                 *)
(***************************************************************************)
ConfigInit ==
    /\ hf = None
    /\ cfg = MistralConfig(NoOverrides)
    /\ origin = "ctor"
    /\ lastOp = [op |-> "MistralConfig"]
    /\ hfOut = None
    /\ exc = "none"

\* c = MistralConfig(hidden_dim=..., num_heads=..., ...)
Construct ==
    \E hd \in HiddenDims, nh \in 1..MaxHeads, sl \in SeqLens, nkv \in 1..MaxHeads :
        /\ cfg' = MistralConfig([seq_len |-> sl, hidden_dim |-> hd,
                                 num_heads |-> nh, num_kv_heads |-> nkv])
        /\ origin' = "ctor"
        /\ hf' = None
        /\ lastOp' = [op |-> "MistralConfig"]
        /\ hfOut' = None
        /\ exc' = "none"
        /\ UNCHANGED <<mvars, dvars>>

\* c = MistralConfig.from_hf_config(h)
FromHf ==
    \E h \in HfConfigs :
        /\ hf' = h
        /\ cfg' = from_hf_config(h)
        /\ origin' = "from_hf"
        /\ lastOp' = [op |-> "from_hf_config"]
        /\ hfOut' = None
        /\ exc' = "none"
        /\ UNCHANGED <<mvars, dvars>>

\* out = c.to_hf_config(V, config_overrides)
ToHf ==
    \E V \in HfVocabSizes, ov \in OverrideChoices :
        LET r == to_hf_config(cfg, V, ov)
        IN  /\ hfOut' = r
            /\ exc' = IF r.kind = "raise" THEN r.exc ELSE "none"
            /\ lastOp' = [op |-> "to_hf_config", vocab_size |-> V, config_overrides |-> ov]
            /\ UNCHANGED <<hf, cfg, origin, mvars, dvars>>

\* c = dataclasses.replace(c, field=value)
Replace ==
    \E ch \in FieldChanges :
        /\ cfg' = replace(cfg, ch)
        /\ origin' = "replace"
        /\ hf' = None
        /\ lastOp' = [op |-> "replace"]
        /\ hfOut' = None
        /\ exc' = "none"
        /\ UNCHANGED <<mvars, dvars>>

\* c.field = value
SetAttr ==
    \E ch \in FieldChanges :
        LET f == CHOOSE x \in DOMAIN ch : TRUE
            r == setattr(cfg, f, ch[f])
        IN  /\ cfg' = IF r.kind = "value" THEN r.val ELSE cfg
            /\ exc' = IF r.kind = "raise" THEN r.exc ELSE "none"
            /\ lastOp' = [op |-> "setattr", before |-> cfg]
            /\ hfOut' = None
            /\ UNCHANGED <<hf, origin, mvars, dvars>>

(***************************************************************************)
(* Operations on model instances.  Instances live in heap under their      *)
(* identity, so that an operation that assigned to self would show.        *)
(***************************************************************************)
ModelConfigs ==
    {MistralConfig([seq_len |-> 4, hidden_dim |-> h, intermediate_dim |-> 4,
                    num_layers |-> 1, num_heads |-> 1, num_kv_heads |-> 1]) : h \in {2, 3}}

ResizeKeys == {None, Value(1)}

\* m = MistralLMHeadModel.init(Vocab, config, key=key)
InitModel ==
    /\ heap = << >>
    /\ \E V \in 1..MaxVocab, c \in ModelConfigs :
        LET m == MistralLMHeadModel_init(Axis("vocab", V), c, 1)
        IN  /\ heap' = <<m>>
            /\ born' = <<m>>
            /\ req' = <<V>>
            /\ ret' = [op |-> "init", self |-> 1, Vocab |-> Axis("vocab", V), config |-> c]
    /\ UNCHANGED <<cvars, dvars>>

\* logits = m(input_ids)
Forward ==
    /\ \E self \in 1..Len(heap), b \in 1..MaxBatch :
        LET input_ids == [axes |-> <<Axis("batch", b), Pos(config(heap[self]))>>]
            r == call(heap, self, input_ids)
        IN  /\ heap' = r.heap
            /\ ret' = [op |-> "call", self |-> self, input_ids |-> input_ids, value |-> r.ret]
    /\ UNCHANGED <<born, req, cvars, dvars>>

\* m2 = m.resize_vocab(new_size, key)
ResizeVocab ==
    /\ Len(heap) < MaxObjs
    /\ \E self \in 1..Len(heap), N \in 1..MaxVocab, key \in ResizeKeys :
        LET r == resize_vocab(heap, self, N, key)
            fresh == Len(r.heap) > Len(heap)
        IN  /\ heap' = r.heap
            /\ born' = IF fresh THEN Append(born, r.heap[r.ret]) ELSE born
            /\ req' = IF fresh THEN Append(req, N) ELSE [req EXCEPT ![r.ret] = N]
            /\ ret' = [op |-> "resize_vocab", self |-> self, new_size |-> N,
                       before |-> heap[self], value |-> r.ret]
    /\ UNCHANGED <<cvars, dvars>>

ModelIdle ==
    /\ heap = << >>
    /\ born = << >>
    /\ req = << >>
    /\ ret = [op |-> "none"]
    /\ dicts = << >>
    /\ prov = << >>

InitModels == ConfigInit /\ ModelIdle

NextModels == InitModel \/ Forward \/ ResizeVocab

SpecModels == InitModels /\ [][NextModels]_vars

(***************************************************************************)
(* Checkpoint operations.  The caller holds one mapping, dicts[1].         *)
(***************************************************************************)
Prefixes == {None, Value(<<"base">>)}

OtherEntry == <<"other", "weight">> :> [shape |-> <<1>>, data |-> <<9>>]
StaleHead == <<"lm_head", "weight">> :> [shape |-> <<1, 1>>, data |-> <<9>>]

CallerDicts == {EmptyDict, OtherEntry, OtherEntry @@ StaleHead}

\* sd = {...}
NewDict ==
    /\ \E d \in CallerDicts :
        /\ dicts' = <<d>>
        /\ prov' = <<[kind |-> IF d = EmptyDict THEN "empty" ELSE "caller"]>>
    /\ ret' = [op |-> "dict"]
    /\ UNCHANGED <<heap, born, req, cvars>>

\* out = m.update_state_dict(sd, prefix)
UpdateStateDict ==
    /\ \E self \in 1..Len(heap), sd \in 1..Len(dicts), prefix \in Prefixes :
        LET r == update_state_dict(dicts, heap[self], sd, prefix)
        IN  /\ dicts' = r.dicts
            /\ prov' = [i \in 1..Len(r.dicts) |->
                          IF i > Len(dicts) THEN [kind |-> "local"]
                          ELSE IF i # sd THEN prov[i]
                          ELSE IF prov[i].kind = "empty"
                               THEN [kind |-> "export", self |-> self, prefix |-> prefix]
                               ELSE [kind |-> "mixed"]]
            /\ ret' = [op |-> "update_state_dict", self |-> self, sd |-> sd,
                       prefix |-> prefix, before |-> dicts, value |-> r.ret]
    /\ UNCHANGED <<heap, born, req, cvars>>

\* m2 = m.from_state_dict(sd, prefix)
FromStateDict ==
    /\ \E self \in 1..Len(heap), sd \in 1..Len(dicts), prefix \in Prefixes :
        LET r == from_state_dict(dicts, heap[self], sd, prefix)
        IN  /\ dicts' = r.dicts
            /\ ret' = [op |-> "from_state_dict", self |-> self, sd |-> sd,
                       prefix |-> prefix, before |-> dicts, value |-> r.ret]
    /\ UNCHANGED <<heap, born, req, prov, cvars>>

\* Two models exist: one from init and either a second from init or a resized one.
InitCkpt ==
    /\ ConfigInit
    /\ \E V \in 1..MaxVocab, c \in ModelConfigs :
        LET m1 == MistralLMHeadModel_init(Axis("vocab", V), c, 1)
        IN  \/ /\ heap = <<m1, MistralLMHeadModel_init(Axis("vocab", V), c, 2)>>
               /\ req = <<V, V>>
            \/ \E N \in 1..MaxVocab :
               /\ heap = resize_vocab(<<m1>>, 1, N, None).heap
               /\ req = <<V, N>>
    /\ born = heap
    /\ ret = [op |-> "none"]
    /\ dicts = <<EmptyDict>>
    /\ prov = <<[kind |-> "empty"]>>

NextCkpt == NewDict \/ UpdateStateDict \/ FromStateDict

SpecCkpt == InitCkpt /\ [][NextCkpt]_vars

(***************************************************************************)
(* The configuration record and its translations as a state machine.       *)
(***************************************************************************)
InitConfig == ConfigInit /\ ModelIdle

NextConfig == Construct \/ FromHf \/ ToHf \/ Replace \/ SetAttr

SpecConfig == InitConfig /\ [][NextConfig]_vars

(***************************************************************************)
(* Claims about the configuration record (checked under SpecConfig).       *)
(***************************************************************************)

\* The last operation was to_hf_config(V) without overrides, on the record that
\* from_hf_config built from hf, with V = hf.vocab_size.
RoundTripped ==
    /\ lastOp.op = "to_hf_config"
    /\ origin = "from_hf"
    /\ lastOp.config_overrides = None
    /\ lastOp.vocab_size = hf.vocab_size

\* C1: from_hf_config(h).to_hf_config(h.vocab_size) returns a config that agrees
\* with h on every shared field; max_position_embeddings is copied unchanged
\* however large it is.
C1_ConfigRoundTrip ==
    RoundTripped =>
        /\ hfOut.kind = "value"
        /\ \A f \in SharedFields : hfOut.val[f] = hf[f]

C1_Witness ==
    /\ RoundTripped
    /\ hf.max_position_embeddings = 1048576
    /\ hf.num_attention_heads # hf.num_key_value_heads
    /\ hfOut.kind = "value"
    /\ hfOut.val.max_position_embeddings = 1048576

\* C5: every MistralConfig that exists satisfies hidden_dim mod num_heads = 0
\* and num_heads mod num_kv_heads = 0 (a record whose head size would not be
\* an integer is never yielded by construction).
C5_Divisibility ==
    /\ cfg.hidden_dim % cfg.num_heads = 0
    /\ cfg.num_heads % cfg.num_kv_heads = 0

C8_OverridesApplied ==
    lastOp.op = "to_hf_config" =>
        IF lastOp.config_overrides = None
        THEN hfOut = to_hf_config(cfg, lastOp.vocab_size, Value(NoOverrides))
        ELSE /\ hfOut.kind = "value"
             /\ \A k \in DOMAIN lastOp.config_overrides.val :
                    hfOut.val[k] = lastOp.config_overrides.val[k]

(***************************************************************************)
(* Claims about model instances (checked under SpecModels).                *)
(***************************************************************************)

\* The size of the vocabulary dimension of a weight: of its axis named as V.
VocabDim(w, V) == w.axes[AxisIndex(w, V)].size

\* C3: resize_vocab(N) returns a model whose embedding table's vocabulary axis,
\* lm_head output axis and lm_head weight vocabulary dimension all have size N,
\* with the embed dimension of both, the transformer stack and the
\* configuration as in the model it was called on.
C3_ResizePostcondition ==
    ret.op = "resize_vocab" =>
        LET m == ret.before
            n == heap[ret.value]
            N == ret.new_size
        IN  /\ n.embeddings.Vocab.size = N
            /\ VocabDim(n.embeddings.token_embeddings, Vocab(m)) = N
            /\ n.lm_head.Out.size = N
            /\ VocabDim(n.lm_head.weight, Vocab(m)) = N
            /\ Len(n.lm_head.weight.data) = N * config(m).hidden_dim
            /\ Len(n.embeddings.token_embeddings.data) = N * config(m).hidden_dim
            /\ n.lm_head.In = m.lm_head.In
            /\ n.lm_head.weight.axes[2] = m.lm_head.weight.axes[2]
            /\ n.embeddings.token_embeddings.axes[2] = m.embeddings.token_embeddings.axes[2]
            /\ n.transformer = m.transformer
            /\ config(n) = config(m)

C3_Witness ==
    /\ ret.op = "resize_vocab"
    /\ ret.new_size > vocab_size(ret.before)
    /\ heap[ret.value].lm_head.Out.size = ret.new_size
    /\ ret.value # ret.self

\* C4: init(Vocab, c, key) builds an lm_head without bias whose weight has
\* exactly two dimensions, (Vocab.size, c.hidden_dim), vocabulary first.
C4_InitShape ==
    ret.op = "init" =>
        LET w == heap[ret.self].lm_head.weight
        IN  /\ heap[ret.self].lm_head.bias = None
            /\ Len(w.axes) = 2
            /\ w.axes[1] = ret.Vocab
            /\ w.axes[1].size = ret.Vocab.size
            /\ w.axes[2].size = ret.config.hidden_dim
            /\ Len(w.data) = ret.Vocab.size * ret.config.hidden_dim

C4_Witness ==
    /\ ret.op = "init"
    /\ ret.Vocab.size # ret.config.hidden_dim
    /\ Len(heap) = 1
    /\ heap[1].lm_head.weight.axes[1].size = ret.Vocab.size

\* C7: a forward call and a resize_vocab call leave the instance they are
\* called on as it was; resize_vocab returns a distinct new instance; after any
\* sequence of calls every instance is still as it was created.
C7_NoMutation ==
    /\ Len(heap) = Len(born)
    /\ \A i \in 1..Len(born) : heap[i] = born[i]
    /\ (ret.op = "resize_vocab" =>
            /\ ret.value # ret.self
            /\ heap[ret.self] = ret.before)
    /\ (ret.op = "call" => heap[ret.self] = born[ret.self])

C7_Witness ==
    /\ ret.op = "call"
    /\ ret.self = 1
    /\ Len(heap) >= 2
    /\ vocab_size(heap[2]) # vocab_size(heap[1])
    /\ heap[1] = born[1]

\* C9: in every model reachable from init by resize_vocab calls the embedding
\* table's vocabulary axis, lm_head.Out, the vocabulary dimension of
\* lm_head.weight and Vocab / vocab_size have one size: the size passed to init
\* or to the most recent resize_vocab.
C9_VocabAgreement ==
    \A i \in 1..Len(heap) :
        LET m == heap[i]
        IN  /\ vocab_size(m) = req[i]
            /\ VocabDim(m.embeddings.token_embeddings, Vocab(m)) = req[i]
            /\ m.lm_head.Out.size = req[i]
            /\ VocabDim(m.lm_head.weight, m.lm_head.Out) = req[i]
            /\ Len(m.lm_head.weight.data) = NumElems(m.lm_head.weight.axes)

C9_Witness ==
    /\ Len(heap) >= 3
    /\ ret.op = "resize_vocab"
    /\ ret.self = 2
    /\ ret.value = 3
    /\ req[1] # req[2]
    /\ req[2] # req[3]
    /\ vocab_size(heap[3]) = req[3]

(***************************************************************************)
(* Claims about the checkpoint operations (checked under SpecCkpt).        *)
(***************************************************************************)

\* The last operation read a mapping that one update_state_dict call filled
\* from empty, with the same prefix, into a model whose lm_head has the axes
\* of the exporting model's (the exporting model itself among them).
ReimportedExport ==
    /\ ret.op = "from_state_dict"
    /\ prov[ret.sd].kind = "export"
    /\ prov[ret.sd].prefix = ret.prefix
    /\ heap[ret.self].lm_head.weight.axes = heap[prov[ret.sd].self].lm_head.weight.axes

\* C2: update_state_dict on an empty mapping followed by from_state_dict with
\* the same prefix yields a model whose lm_head weight is that of the exporting
\* model, element for element and in axis layout; flattening and unflattening
\* lm_head are inverse to each other on key names and shapes.
C2_CheckpointRoundTrip ==
    /\ ReimportedExport =>
        /\ ret.value.kind = "value"
        /\ ret.value.val.lm_head.weight = heap[prov[ret.sd].self].lm_head.weight
        /\ ret.value.val.lm_head.Out = heap[prov[ret.sd].self].lm_head.Out
    /\ \A i \in 1..Len(heap), p \in Prefixes :
        LET L == heap[i].lm_head
            lp == apply_prefix(p, Value(<<"lm_head">>))
            f == flatten_linear_layers(lp, L, TRUE)
            u == unflatten_linear_layers(lp, f, L, TRUE)
        IN  /\ DOMAIN f = {HeadKey(p)}
            /\ f[HeadKey(p)].shape = <<L.Out.size, L.In.size>>
            /\ u.kind = "value"
            /\ DOMAIN u.val = DOMAIN f
            /\ u.val[HeadKey(p)] = Raw(L.weight)
            /\ flatten_linear_layers(
                   lp, [L EXCEPT !.weight = NamedArray(L.weight.axes, u.val[HeadKey(p)].data)],
                   TRUE) = f

C2_Witness ==
    /\ ReimportedExport
    /\ ret.prefix = Value(<<"base">>)
    /\ ret.self = prov[ret.sd].self
    /\ heap[ret.self].lm_head.Out.size > 1
    /\ heap[ret.self].lm_head.Out.size # heap[ret.self].lm_head.In.size
    /\ ret.value.kind = "value"
    /\ ret.value.val.lm_head.weight = heap[ret.self].lm_head.weight

\* The keys a model writes under a prefix.
ExportedKeys(p) == {NormKey(p), EmbedKey(p), HeadKey(p)}

\* C10: update_state_dict returns the mapping it was given, writes only the keys
\* the model exports (lm_head under apply_prefix(prefix, "lm_head") and the
\* inherited ones) and leaves every other entry as it was; from_state_dict
\* leaves the caller's mapping with the same keys and values.
C10_CheckpointFrame ==
    /\ (ret.op = "update_state_dict" =>
            LET old == ret.before[ret.sd]
                new == dicts[ret.sd]
            IN  /\ ret.value = ret.sd
                /\ Len(dicts) = Len(ret.before)
                /\ DOMAIN new = DOMAIN old \cup ExportedKeys(ret.prefix)
                /\ \A k \in DOMAIN old \ ExportedKeys(ret.prefix) : new[k] = old[k]
                /\ new[HeadKey(ret.prefix)].data = heap[ret.self].lm_head.weight.data
                /\ \A i \in 1..Len(ret.before) : i # ret.sd => dicts[i] = ret.before[i])
    /\ (ret.op = "from_state_dict" => dicts = ret.before)

C10_Witness ==
    /\ ret.op = "update_state_dict"
    /\ ret.prefix = None
    /\ <<"other", "weight">> \in DOMAIN ret.before[1]
    /\ <<"lm_head", "weight">> \in DOMAIN ret.before[1]
    /\ ret.before[1][<<"lm_head", "weight">>] # dicts[1][<<"lm_head", "weight">>]
    /\ dicts[1][<<"other", "weight">>] = ret.before[1][<<"other", "weight">>]

====
